---- MODULE Spec2Model ----
(***************************************************************************)
(* Model of ebpf/l7_req/main.go: the userspace ingestion core of the L7   *)
(* agent.  LoadBpfObjects loads the probe object graph, DeployAndWait      *)
(* attaches eight tracepoints, opens two perf ring readers, runs the log  *)
(* pump and the L7 pump as goroutines, waits for the context and tears    *)
(* everything down through its deferred calls.                            *)
(***************************************************************************)
EXTENDS Integers, Sequences, FiniteSets, TLC

(***************************************************************************)
(* Bounds of the model.                                                    *)
(***************************************************************************)
MaxLoads == 2
MaxL7Reads == 2
MaxLogReads == 2
ChanCap == 1
MaxAtoms == 4
FuncNameLen == 2

(***************************************************************************)
(* Program constants.                                                      *)
(***************************************************************************)
\* Payload [512]uint8
MAX_PAYLOAD_SIZE == 512

BPF_L7_PROTOCOL_UNKNOWN == 0
BPF_L7_PROTOCOL_HTTP == 1
BPF_L7_PROTOCOL_AMQP == 2
BPF_L7_PROTOCOL_POSTGRES == 3

L7_PROTOCOL_HTTP == "HTTP"
L7_PROTOCOL_AMQP == "AMQP"
L7_PROTOCOL_POSTGRES == "POSTGRES"
L7_PROTOCOL_UNKNOWN == "UNKNOWN"

BPF_METHOD_GET == 1
BPF_METHOD_POST == 2
BPF_METHOD_PUT == 3
BPF_METHOD_PATCH == 4
BPF_METHOD_DELETE == 5
BPF_METHOD_HEAD == 6
BPF_METHOD_CONNECT == 7
BPF_METHOD_OPTIONS == 8
BPF_METHOD_TRACE == 9

BPF_AMQP_METHOD_PUBLISH == 1
BPF_AMQP_METHOD_DELIVER == 2

BPF_POSTGRES_METHOD_STATEMENT_CLOSE_OR_CONN_TERMINATE == 1
BPF_POSTGRES_METHOD_SIMPLE_QUERY == 2

\* Byte values of the characters the log parser looks for.
SP == 32
DASH == 45
BAR == 124
NUL == 0

\* uint16(l7Event.Fd) keeps the low 16 bits.
Uint16Mod == 65536

(***************************************************************************)
(* Codec: enum conversions and byte helpers.                               *)
(***************************************************************************)
\* func (e L7ProtocolConversion) String() string
L7ProtocolConversion(e) ==
    CASE e = BPF_L7_PROTOCOL_HTTP -> L7_PROTOCOL_HTTP
      [] e = BPF_L7_PROTOCOL_AMQP -> L7_PROTOCOL_AMQP
      [] e = BPF_L7_PROTOCOL_POSTGRES -> L7_PROTOCOL_POSTGRES
      [] e = BPF_L7_PROTOCOL_UNKNOWN -> L7_PROTOCOL_UNKNOWN
      [] OTHER -> "Unknown"

\* The HTTP table with OPTIONS and TRACE answering the same name.
HTTPMethodConversionMerged(e) ==
    CASE e = BPF_METHOD_GET -> "GET"
      [] e = BPF_METHOD_POST -> "POST"
      [] e = BPF_METHOD_PUT -> "PUT"
      [] e = BPF_METHOD_PATCH -> "PATCH"
      [] e = BPF_METHOD_DELETE -> "DELETE"
      [] e = BPF_METHOD_HEAD -> "HEAD"
      [] e = BPF_METHOD_CONNECT -> "CONNECT"
      [] e = BPF_METHOD_OPTIONS -> "OPTIONS"
      [] e = BPF_METHOD_TRACE -> "OPTIONS"
      [] OTHER -> "Unknown"

\* func (e HTTPMethodConversion) String() string
HTTPMethodConversion(e) ==
    CASE e = BPF_METHOD_GET -> "GET"
      [] e = BPF_METHOD_POST -> "POST"
      [] e = BPF_METHOD_PUT -> "PUT"
      [] e = BPF_METHOD_PATCH -> "PATCH"
      [] e = BPF_METHOD_DELETE -> "DELETE"
      [] e = BPF_METHOD_HEAD -> "HEAD"
      [] e = BPF_METHOD_CONNECT -> "CONNECT"
      [] e = BPF_METHOD_OPTIONS -> "OPTIONS"
      [] e = BPF_METHOD_TRACE -> "TRACE"
      [] OTHER -> "Unknown"

\* func (e RabbitMQMethodConversion) String() string
RabbitMQMethodConversion(e) ==
    CASE e = BPF_AMQP_METHOD_PUBLISH -> "PUBLISH"
      [] e = BPF_AMQP_METHOD_DELIVER -> "DELIVER"
      [] OTHER -> "Unknown"

\* func (e PostgresMethodConversion) String() string
PostgresMethodConversion(e) ==
    CASE e = BPF_POSTGRES_METHOD_STATEMENT_CLOSE_OR_CONN_TERMINATE -> "CLOSE_OR_TERMINATE"
      [] e = BPF_POSTGRES_METHOD_SIMPLE_QUERY -> "SIMPLE_QUERY"
      [] OTHER -> "Unknown"

\* func uint8ToBool(num uint8) bool
uint8ToBool(num) == num # 0

\* func findEndIndex(b [100]uint8) int, as a 0-based index: the number of
\* bytes before the first zero byte, or len(b).
RECURSIVE findEndIndexFrom(_, _)
findEndIndexFrom(b, i) ==
    IF i > Len(b) THEN Len(b)
    ELSE IF b[i] = NUL THEN i - 1
    ELSE findEndIndexFrom(b, i + 1)

findEndIndex(b) == findEndIndexFrom(b, 1)

\* bytes.Index(s, sep) as a 1-based position, 0 when sep does not occur.
RECURSIVE IndexFrom(_, _, _)
IndexFrom(s, sep, i) ==
    IF i + Len(sep) - 1 > Len(s) THEN 0
    ELSE IF SubSeq(s, i, i + Len(sep) - 1) = sep THEN i
    ELSE IndexFrom(s, sep, i + 1)

Index(s, sep) == IndexFrom(s, sep, 1)

\* bytes.SplitN(s, sep, n) for n > 0 and a non-empty sep: at most n
\* subslices, the last one the unsplit remainder.
RECURSIVE SplitN(_, _, _)
SplitN(s, sep, n) ==
    IF n <= 1 THEN <<s>>
    ELSE LET m == Index(s, sep) IN
         IF m = 0 THEN <<s>>
         ELSE <<SubSeq(s, 1, m - 1)>> \o SplitN(SubSeq(s, m + Len(sep), Len(s)), sep, n - 1)

Delim == <<SP, DASH, DASH, SP>>
Bar == <<BAR>>

(***************************************************************************)
(* Ring records.  perf.Reader.Read returns (Record, error); a Record has   *)
(* LostSamples and RawSample.  RawSample is modelled as the empty sequence *)
(* (nil or empty) or a one-element sequence holding the struct the bytes   *)
(* are reinterpreted as.                                                   *)
(***************************************************************************)
ReadError == [err |-> TRUE, LostSamples |-> 0, RawSample |-> <<>>]
LostRecord(n) == [err |-> FALSE, LostSamples |-> n, RawSample |-> <<>>]
SampleRecord(raw) == [err |-> FALSE, LostSamples |-> 0, RawSample |-> <<raw>>]

(***************************************************************************)
(* Host log entries (log.Logger).                                          *)
(***************************************************************************)
LogEntry(level, msg) == [level |-> level, msg |-> msg]
LogEntryText(level, msg, text) == [level |-> level, msg |-> msg, text |-> text]

\* The structured "ebpf-log" entry of lines 408-422.
EbpfLog(level, funcName, logMsg, args, logMessage) ==
    [level |-> level, msg |-> "ebpf-log", func |-> funcName, pid |-> logMsg.Pid,
     args |-> <<<<args[1].argName, args[1].argValue>>,
                <<args[2].argName, args[2].argValue>>,
                <<args[3].argName, args[3].argValue>>>>,
     logMsg |-> logMessage]

(***************************************************************************)
(* Log pump: parseLogMessage and the body of read().                       *)
(***************************************************************************)
\* The args slice before parseLogMessage fills it (lines 354-370).
ZeroArgs == [i \in 1..3 |-> [argName |-> <<>>, argValue |-> 0]]

\* parseLogMessage with the values of the second and third argument swapped.
parseLogMessageSwapped(input, logMsg) ==
    LET parts == SplitN(input, Delim, 2) IN
    IF Len(parts) # 2
    THEN [ok |-> FALSE, body |-> <<>>, args |-> ZeroArgs,
          logs |-> <<LogEntryText("warn", "invalid ebpf log message", input)>>]
    ELSE LET parsedArgs == SplitN(parts[2], Bar, 3) IN
         IF Len(parsedArgs) # 3
         THEN [ok |-> FALSE, body |-> <<>>, args |-> ZeroArgs,
               logs |-> <<LogEntryText("warn", "invalid ebpf log message not 3 args", input)>>]
         ELSE [ok |-> TRUE, body |-> parts[1],
               args |-> <<[argName |-> parsedArgs[1], argValue |-> logMsg.Arg1],
                          [argName |-> parsedArgs[2], argValue |-> logMsg.Arg3],
                          [argName |-> parsedArgs[3], argValue |-> logMsg.Arg2]>>,
               logs |-> <<>>]

\* parseLogMessage (lines 372-397): ok = FALSE stands for the nil return.
parseLogMessage(input, logMsg) ==
    LET parts == SplitN(input, Delim, 2) IN
    IF Len(parts) # 2
    THEN [ok |-> FALSE, body |-> <<>>, args |-> ZeroArgs,
          logs |-> <<LogEntryText("warn", "invalid ebpf log message", input)>>]
    ELSE LET parsedArgs == SplitN(parts[2], Bar, 3) IN
         IF Len(parsedArgs) # 3
         THEN [ok |-> FALSE, body |-> <<>>, args |-> ZeroArgs,
               logs |-> <<LogEntryText("warn", "invalid ebpf log message not 3 args", input)>>]
         ELSE [ok |-> TRUE, body |-> parts[1],
               args |-> <<[argName |-> parsedArgs[1], argValue |-> logMsg.Arg1],
                          [argName |-> parsedArgs[2], argValue |-> logMsg.Arg2],
                          [argName |-> parsedArgs[3], argValue |-> logMsg.Arg3]>>,
               logs |-> <<>>]

\* The switch with a default case that logs at debug.
LevelSwitchDefault(logMsg, funcName, args, logMessage) ==
    CASE logMsg.Level = 1 -> <<EbpfLog("info", funcName, logMsg, args, logMessage)>>
      [] logMsg.Level = 2 -> <<EbpfLog("warn", funcName, logMsg, args, logMessage)>>
      [] logMsg.Level = 3 -> <<EbpfLog("error", funcName, logMsg, args, logMessage)>>
      [] OTHER -> <<EbpfLog("debug", funcName, logMsg, args, logMessage)>>

\* switch logMsg.Level (lines 406-423): no default case.
LevelSwitch(logMsg, funcName, args, logMessage) ==
    CASE logMsg.Level = 0 -> <<EbpfLog("debug", funcName, logMsg, args, logMessage)>>
      [] logMsg.Level = 1 -> <<EbpfLog("info", funcName, logMsg, args, logMessage)>>
      [] logMsg.Level = 2 -> <<EbpfLog("warn", funcName, logMsg, args, logMessage)>>
      [] logMsg.Level = 3 -> <<EbpfLog("error", funcName, logMsg, args, logMessage)>>
      [] OTHER -> <<>>

\* What read() of the log pump does with a sample (lines 346-423).
LogSampleEntries(logMsg) ==
    LET funcEnd == findEndIndex(logMsg.FuncName)
        msgEnd == findEndIndex(logMsg.LogMsg)
        logMessage == SubSeq(logMsg.LogMsg, 1, msgEnd)
        funcName == SubSeq(logMsg.FuncName, 1, funcEnd)
        parsed == parseLogMessage(logMessage, logMsg)
    IN  IF ~parsed.ok
        THEN parsed.logs \o <<LogEntryText("warn", "invalid ebpf log message", logMsg.LogMsg)>>
        ELSE parsed.logs \o LevelSwitch(logMsg, funcName, parsed.args, parsed.body)

\* The entries one call of the log pump's read() writes (lines 331-424).
LogReadEntries(record) ==
    (IF record.err THEN <<LogEntry("warn", "error reading from perf array")>> ELSE <<>>)
    \o (IF record.LostSamples # 0
        THEN <<[level |-> "debug", msg |-> "lost samples", n |-> record.LostSamples]>>
        ELSE <<>>)
    \o (IF Len(record.RawSample) = 0
        THEN <<LogEntry("debug", "read empty record from perf array")>>
        ELSE LogSampleEntries(record.RawSample[1]))

(***************************************************************************)
(* L7 pump: the decoding done by the per-event goroutine.                  *)
(***************************************************************************)
\* protocol and method of lines 456-467.
DecodeProtocol(l7Event) == L7ProtocolConversion(l7Event.Protocol)

\* Every protocol's method looked up in the HTTP table.
DecodeMethodHttpOnly(l7Event) ==
    HTTPMethodConversion(l7Event.Method)

DecodeMethod(l7Event) ==
    LET protocol == DecodeProtocol(l7Event) IN
    CASE protocol = L7_PROTOCOL_HTTP -> HTTPMethodConversion(l7Event.Method)
      [] protocol = L7_PROTOCOL_AMQP -> RabbitMQMethodConversion(l7Event.Method)
      [] protocol = L7_PROTOCOL_POSTGRES -> PostgresMethodConversion(l7Event.Method)
      [] OTHER -> "Unknown"

\* The literal with PayloadSize taken from the neighbouring Status field.
L7EventOfStatusAsSize(l7Event) ==
    [Fd |-> l7Event.Fd,
     Pid |-> l7Event.Pid,
     Status |-> l7Event.Status,
     Duration |-> l7Event.Duration,
     Protocol |-> DecodeProtocol(l7Event),
     Tls |-> uint8ToBool(l7Event.IsTls),
     Method |-> DecodeMethod(l7Event),
     Payload |-> l7Event.Payload,
     PayloadSize |-> l7Event.Status,
     PayloadReadComplete |-> uint8ToBool(l7Event.PayloadReadComplete),
     Failed |-> uint8ToBool(l7Event.Failed),
     WriteTimeNs |-> l7Event.WriteTimeNs]

\* The L7Event literal of lines 474-487.
L7EventOf(l7Event) ==
    [Fd |-> l7Event.Fd,
     Pid |-> l7Event.Pid,
     Status |-> l7Event.Status,
     Duration |-> l7Event.Duration,
     Protocol |-> DecodeProtocol(l7Event),
     Tls |-> uint8ToBool(l7Event.IsTls),
     Method |-> DecodeMethod(l7Event),
     Payload |-> l7Event.Payload,
     PayloadSize |-> l7Event.PayloadSize,
     PayloadReadComplete |-> uint8ToBool(l7Event.PayloadReadComplete),
     Failed |-> uint8ToBool(l7Event.Failed),
     WriteTimeNs |-> l7Event.WriteTimeNs]

\* The debug log of lines 469-472.
TlsLogEntries(l7Event) ==
    IF uint8ToBool(l7Event.IsTls)
    THEN <<[level |-> "debug", msg |-> "l7tls event",
            fd |-> l7Event.Fd % Uint16Mod, pid |-> l7Event.Pid,
            payload |-> l7Event.Payload, method |-> DecodeMethod(l7Event),
            protocol |-> DecodeProtocol(l7Event), status |-> l7Event.Status]>>
    ELSE <<>>

\* The entries one call of the L7 pump's read() writes itself (lines 437-450).
L7ReadEntries(record) ==
    (IF record.err THEN <<LogEntry("warn", "error reading from perf array")>> ELSE <<>>)
    \o (IF record.LostSamples # 0
        THEN <<[level |-> "debug", msg |-> "lost samples l7-event", n |-> record.LostSamples]>>
        ELSE <<>>)
    \o (IF Len(record.RawSample) = 0
        THEN <<LogEntry("debug", "read sample l7-event nil or empty")>>
        ELSE <<>>)

(***************************************************************************)
(* State.                                                                  *)
(***************************************************************************)
VARIABLES
    objs,       \* L7BpfProgsAndMaps: "zero", "open" or "closed"
    orphans,    \* loaded object graphs still open that no variable refers to
    loads,      \* calls of LoadBpfObjects so far
    mainPc,     \* where the caller / DeployAndWait stands
    step,       \* index in Resources of the next acquisition
    res,        \* each link and ring reader: "none", "open" or "closed"
    defers,     \* the deferred calls of DeployAndWait, last registered first
    released,   \* history: the resources closed, in order
    cancelled,  \* ctx.Done() is closed
    logsDone,   \* number of values in the buffered channel logsDone
    l7Pc,       \* the L7 pump goroutine: "idle", "select", "read", "done"
    logPc,      \* the log pump goroutine: "idle", "select", "read", "done"
    l7Hist,     \* history: the records l7Events.Read returned, in order
    logReads,   \* number of records logs.Read returned from the open ring
    l7After,    \* history: records the L7 pump read after line 501 was passed
    logAfter,   \* history: records the log pump read after line 501 was passed
    tasks,      \* the per-event goroutines that have not finished their send
    chBuf,      \* the caller's channel ch
    sent,       \* history: the sends completed on ch, in order
    hostLog,    \* the entries written to log.Logger, in order
    lastLog     \* history: the last record of the log ring and where its entries start

vars == <<objs, orphans, loads, mainPc, step, res, defers, released, cancelled,
          logsDone, l7Pc, logPc, l7Hist, logReads, l7After, logAfter, tasks,
          chBuf, sent, hostLog, lastLog>>

loaderVars == <<objs, orphans, loads>>
pumpVars == <<logsDone, l7Pc, logPc, l7Hist, logReads, l7After, logAfter, tasks,
              chBuf, sent, lastLog>>

\* The tracepoints in the order DeployAndWait links them, then the two readers.
Tracepoints == <<"sys_enter_read", "sys_enter_write", "sys_exit_read",
                 "sys_enter_sendto", "sys_enter_recvfrom", "sys_exit_recvfrom",
                 "sys_exit_sendto", "sys_exit_write">>
Readers == <<"l7Events", "logs">>
Resources == Tracepoints \o Readers
ResourceNames == {Resources[i] : i \in 1..Len(Resources)}
TracepointNames == {Tracepoints[i] : i \in 1..Len(Tracepoints)}

NoLog == [rec |-> ReadError, from |-> 0]

Init ==
    /\ objs = "zero"
    /\ orphans = 0
    /\ loads = 0
    /\ mainPc = "init"
    /\ step = 1
    /\ res = [r \in ResourceNames |-> "none"]
    /\ defers = <<>>
    /\ released = <<>>
    /\ cancelled = FALSE
    /\ logsDone = 0
    /\ l7Pc = "idle"
    /\ logPc = "idle"
    /\ l7Hist = <<>>
    /\ logReads = 0
    /\ l7After = 0
    /\ logAfter = 0
    /\ tasks = {}
    /\ chBuf = <<>>
    /\ sent = <<>>
    /\ hostLog = <<>>
    /\ lastLog = NoLog

(***************************************************************************)
(* log.Logger.Fatal().Msg(...): writes the entry and ends the process with *)
(* os.Exit(1); deferred calls do not run.                                  *)
(***************************************************************************)
Fatal(before, msg) ==
    /\ hostLog' = hostLog \o before \o <<LogEntry("fatal", msg)>>
    /\ mainPc' = "exited"

(***************************************************************************)
(* LoadBpfObjects (lines 207-217).                                         *)
(***************************************************************************)
LoadBpfObjects ==
    /\ mainPc = "init"
    /\ loads < MaxLoads
    /\ loads' = loads + 1
    /\ \/ /\ Fatal(<<>>, "failed to remove memlock limit")
          /\ UNCHANGED <<objs, orphans>>
       \/ /\ objs' = "zero"
          /\ orphans' = IF objs = "open" THEN orphans + 1 ELSE orphans
          /\ Fatal(<<>>, "loading objects")
       \/ /\ objs' = "open"
          /\ orphans' = IF objs = "open" THEN orphans + 1 ELSE orphans
          /\ UNCHANGED <<mainPc, hostLog>>
    /\ UNCHANGED <<step, res, defers, released, cancelled>>
    /\ UNCHANGED pumpVars

(***************************************************************************)
(* DeployAndWait (lines 220-505), the coordinator.                         *)
(***************************************************************************)
\* Lines 220-222: derive ctx and register defer L7BpfProgsAndMaps.Close().
DeployAndWaitEnter ==
    /\ mainPc = "init"
    /\ mainPc' = "acquire"
    /\ step' = 1
    /\ defers' = <<"objs">>
    /\ UNCHANGED <<res, released, cancelled, hostLog>>
    /\ UNCHANGED loaderVars
    /\ UNCHANGED pumpVars

\* Lines 225-323: link.Tracepoint / perf.NewReader number `step`.  On an
\* error the function logs Fatal; otherwise it registers the deferred Close.
Acquire ==
    /\ mainPc = "acquire"
    /\ LET name == Resources[step] IN
       \/ /\ objs = "open"
          /\ res' = [res EXCEPT ![name] = "open"]
          /\ defers' = <<name>> \o defers
          /\ hostLog' = IF name \in TracepointNames
                        THEN Append(hostLog, LogEntryText("info", "linked", name))
                        ELSE hostLog
          /\ step' = step + 1
          /\ mainPc' = IF step = Len(Resources) THEN "spawn" ELSE "acquire"
       \/ /\ Fatal(IF name = "sys_enter_write"
                   THEN <<LogEntry("warn", "verifier log")>> ELSE <<>>,
                   name)
          /\ UNCHANGED <<res, defers, step>>
    /\ UNCHANGED <<released, cancelled>>
    /\ UNCHANGED loaderVars
    /\ UNCHANGED pumpVars

\* Lines 325-499: make the two stop channels and start both goroutines.
SpawnPumps ==
    /\ mainPc = "spawn"
    /\ mainPc' = "wait"
    /\ l7Pc' = "select"
    /\ logPc' = "select"
    /\ logsDone' = 0
    /\ UNCHANGED <<step, res, defers, released, cancelled, hostLog, l7Hist,
                   logReads, l7After, logAfter, tasks, chBuf, sent, lastLog>>
    /\ UNCHANGED loaderVars

\* Line 501: <-ctx.Done().
AwaitDone ==
    /\ mainPc = "wait"
    /\ cancelled
    /\ mainPc' = "sendReadDone"
    /\ UNCHANGED <<step, res, defers, released, cancelled, hostLog>>
    /\ UNCHANGED loaderVars
    /\ UNCHANGED pumpVars

\* Line 503: logsDone <- struct{}{} on a channel of capacity 1.
SendLogsDone ==
    /\ mainPc = "sendLogsDone"
    /\ logsDone < 1
    /\ logsDone' = logsDone + 1
    /\ mainPc' = "defers"
    /\ UNCHANGED <<step, res, defers, released, cancelled, hostLog, l7Pc, logPc,
                   l7Hist, logReads, l7After, logAfter, tasks, chBuf, sent, lastLog>>
    /\ UNCHANGED loaderVars

\* The deferred calls run in the order they were registered.
RunDeferFifo ==
    /\ mainPc = "defers"
    /\ defers # <<>>
    /\ LET name == defers[Len(defers)] IN
       /\ defers' = SubSeq(defers, 1, Len(defers) - 1)
       /\ released' = Append(released, name)
       /\ IF name = "objs"
          THEN /\ objs' = IF objs = "open" THEN "closed" ELSE objs
               /\ UNCHANGED <<res, hostLog>>
          ELSE /\ res' = [res EXCEPT ![name] = "closed"]
               /\ hostLog' = Append(hostLog, LogEntryText("info", "closing", name))
               /\ UNCHANGED objs
    /\ UNCHANGED <<orphans, loads, mainPc, step, cancelled>>
    /\ UNCHANGED pumpVars

\* One deferred call, the last registered first (lines 222-323).
RunDefer ==
    /\ mainPc = "defers"
    /\ defers # <<>>
    /\ LET name == Head(defers) IN
       /\ defers' = Tail(defers)
       /\ released' = Append(released, name)
       /\ IF name = "objs"
          THEN /\ objs' = IF objs = "open" THEN "closed" ELSE objs
               /\ UNCHANGED <<res, hostLog>>
          ELSE /\ res' = [res EXCEPT ![name] = "closed"]
               /\ hostLog' = Append(hostLog, LogEntryText("info", "closing", name))
               /\ UNCHANGED objs
    /\ UNCHANGED <<orphans, loads, mainPc, step, cancelled>>
    /\ UNCHANGED pumpVars

\* DeployAndWait returns once every deferred call has run.
Return ==
    /\ mainPc = "defers"
    /\ defers = <<>>
    /\ mainPc' = "returned"
    /\ UNCHANGED <<step, res, defers, released, cancelled, hostLog>>
    /\ UNCHANGED loaderVars
    /\ UNCHANGED pumpVars

\* The caller cancels parentCtx.
Cancel ==
    /\ ~cancelled
    /\ mainPc # "exited"
    /\ cancelled' = TRUE
    /\ UNCHANGED <<mainPc, step, res, defers, released, hostLog>>
    /\ UNCHANGED loaderVars
    /\ UNCHANGED pumpVars

\* The context is cancelled and DeployAndWait has come back from
\* <-ctx.Done() (line 501).
StopRequested ==
    cancelled /\ mainPc \in {"sendReadDone", "sendLogsDone", "defers", "returned"}

(***************************************************************************)
(* The L7 pump goroutine (lines 435-499) and its per-event goroutines.     *)
(***************************************************************************)
\* Lines 490-497: select on readDone with a default.  The receive is taken
\* exactly when the coordinator is blocked in its send on the unbuffered
\* channel (line 502), and completes that send.
L7PumpSelect ==
    /\ l7Pc = "select"
    /\ \/ /\ mainPc = "sendReadDone"
          /\ mainPc' = "sendLogsDone"
          /\ l7Pc' = "done"
       \/ /\ mainPc # "sendReadDone"
          /\ l7Pc' = "read"
          /\ UNCHANGED mainPc
    /\ UNCHANGED <<step, res, defers, released, cancelled, hostLog, logsDone, logPc,
                   l7Hist, logReads, l7After, logAfter, tasks, chBuf, sent, lastLog>>
    /\ UNCHANGED loaderVars

\* The decode and the send done by the pump itself instead of a goroutine.
L7DispatchInline(seq, l7Event, entries) ==
    /\ Len(chBuf) < ChanCap
    /\ hostLog' = hostLog \o entries \o TlsLogEntries(l7Event)
    /\ chBuf' = Append(chBuf, [seq |-> seq, ev |-> L7EventOf(l7Event)])
    /\ sent' = Append(sent, [seq |-> seq, ev |-> L7EventOf(l7Event)])
    /\ UNCHANGED tasks

\* The goroutines sharing one l7Event pointer: every pending sender sees
\* the record read last.
L7DispatchShared(seq, l7Event, entries) ==
    /\ hostLog' = hostLog \o entries
    /\ tasks' = {[t EXCEPT !.raw = l7Event] : t \in tasks}
                 \cup {[seq |-> seq, raw |-> l7Event, st |-> "run"]}
    /\ UNCHANGED <<chBuf, sent>>

\* A record of a protocol outside the three tables starts no goroutine.
L7DispatchKnownOnly(seq, l7Event, entries) ==
    /\ hostLog' = hostLog \o entries
    /\ tasks' = IF DecodeProtocol(l7Event) \in
                      {L7_PROTOCOL_HTTP, L7_PROTOCOL_AMQP, L7_PROTOCOL_POSTGRES}
                THEN tasks \cup {[seq |-> seq, raw |-> l7Event, st |-> "run"]}
                ELSE tasks
    /\ UNCHANGED <<chBuf, sent>>

\* Lines 452-488: go func() { ... ch <- L7Event{...} }() for record number seq.
L7Dispatch(seq, l7Event, entries) ==
    /\ hostLog' = hostLog \o entries
    /\ tasks' = tasks \cup {[seq |-> seq, raw |-> l7Event, st |-> "run"]}
    /\ UNCHANGED <<chBuf, sent>>

\* Lines 436-489: one call of read(), l7Events.Read returning `record`.
\* l7Events is closed only after this goroutine has returned (line 502
\* precedes the deferred Close), so Read never runs on a closed reader.
L7PumpRead(record) ==
    /\ l7Pc = "read"
    /\ res["l7Events"] = "open"
    /\ Len(l7Hist) < MaxL7Reads
    /\ l7Hist' = Append(l7Hist, record)
    /\ l7After' = IF StopRequested /\ ~record.err THEN l7After + 1 ELSE l7After
    /\ IF Len(record.RawSample) = 0
       THEN /\ hostLog' = hostLog \o L7ReadEntries(record)
            /\ UNCHANGED <<tasks, chBuf, sent>>
       ELSE L7Dispatch(Len(l7Hist) + 1, record.RawSample[1], L7ReadEntries(record))
    /\ l7Pc' = "select"
    /\ UNCHANGED <<mainPc, step, res, defers, released, cancelled, logsDone, logPc,
                   logReads, logAfter, lastLog>>
    /\ UNCHANGED loaderVars

\* Lines 456-472 of a per-event goroutine: decode, and log when is_tls.
TaskRun(t) ==
    /\ t \in tasks
    /\ t.st = "run"
    /\ hostLog' = hostLog \o TlsLogEntries(t.raw)
    /\ tasks' = (tasks \ {t}) \cup {[t EXCEPT !.st = "send"]}
    /\ UNCHANGED <<mainPc, step, res, defers, released, cancelled, logsDone, l7Pc,
                   logPc, l7Hist, logReads, l7After, logAfter, chBuf, sent, lastLog>>
    /\ UNCHANGED loaderVars

\* Lines 474-487: the send on ch completes when the channel takes the value.
TaskSend(t) ==
    /\ t \in tasks
    /\ t.st = "send"
    /\ Len(chBuf) < ChanCap
    /\ chBuf' = Append(chBuf, [seq |-> t.seq, ev |-> L7EventOf(t.raw)])
    /\ sent' = Append(sent, [seq |-> t.seq, ev |-> L7EventOf(t.raw)])
    /\ tasks' = tasks \ {t}
    /\ UNCHANGED <<mainPc, step, res, defers, released, cancelled, logsDone, l7Pc,
                   logPc, l7Hist, logReads, l7After, logAfter, hostLog, lastLog>>
    /\ UNCHANGED loaderVars

\* The downstream consumer receives from ch.
ConsumerReceive ==
    /\ chBuf # <<>>
    /\ chBuf' = Tail(chBuf)
    /\ UNCHANGED <<mainPc, step, res, defers, released, cancelled, logsDone, l7Pc,
                   logPc, l7Hist, logReads, l7After, logAfter, tasks, sent, hostLog,
                   lastLog>>
    /\ UNCHANGED loaderVars

(***************************************************************************)
(* The log pump goroutine (lines 328-433).                                 *)
(***************************************************************************)
\* Lines 425-432: select on the buffered logsDone with a default.
LogPumpSelect ==
    /\ logPc = "select"
    /\ \/ /\ logsDone > 0
          /\ logsDone' = logsDone - 1
          /\ logPc' = "done"
       \/ /\ logsDone = 0
          /\ logPc' = "read"
          /\ UNCHANGED logsDone
    /\ UNCHANGED <<mainPc, step, res, defers, released, cancelled, hostLog, l7Pc,
                   l7Hist, logReads, l7After, logAfter, tasks, chBuf, sent, lastLog>>
    /\ UNCHANGED loaderVars

\* Lines 331-424: the body of read() once logs.Read has returned `record`.
LogRead(record) ==
    /\ hostLog' = hostLog \o LogReadEntries(record)
    /\ lastLog' = [rec |-> record, from |-> Len(hostLog)]
    /\ logAfter' = IF StopRequested /\ ~record.err THEN logAfter + 1 ELSE logAfter
    /\ logPc' = "select"
    /\ UNCHANGED <<mainPc, step, res, defers, released, cancelled, logsDone, l7Pc,
                   l7Hist, l7After, tasks, chBuf, sent>>
    /\ UNCHANGED loaderVars

\* read() on the open ring: the kernel delivers `record`, or Read fails.
LogPumpRead(record) ==
    /\ logPc = "read"
    /\ res["logs"] = "open"
    /\ logReads < MaxLogReads
    /\ logReads' = logReads + 1
    /\ LogRead(record)

\* read() once the coordinator has closed the reader (line 322): Read
\* returns an error at once.
LogPumpReadClosed ==
    /\ logPc = "read"
    /\ res["logs"] = "closed"
    /\ UNCHANGED logReads
    /\ LogRead(ReadError)

(***************************************************************************)
(* Inputs: the records the kernel side can put on the two rings.           *)
(***************************************************************************)
\* A raw bpfL7Event; the fields no conversion looks at keep fixed values.
RawL7(protocol, method, isTls, fd, payloadSize) ==
    [Fd |-> fd, WriteTimeNs |-> 1700000000, Pid |-> 7777, Status |-> 200,
     Duration |-> 125000, Protocol |-> protocol, Method |-> method,
     Payload |-> <<71, 69, 84>>, PayloadSize |-> payloadSize,
     PayloadReadComplete |-> 1, Failed |-> 0, IsTls |-> isTls]

\* The record of the lifecycle specification: an HTTP GET.
SpecL7Inputs == {SampleRecord(RawL7(1, 1, 0, 12, 14))}

\* The records of the L7 pump specification: an HTTP GET, an AMQP PUBLISH
\* over TLS, a record of a protocol and a method outside the tables, a
\* lost-samples record and a failed read.
PumpL7Inputs ==
    {SampleRecord(RawL7(1, 1, 0, 12, 14)), SampleRecord(RawL7(2, 1, 1, 12, 14)),
     SampleRecord(RawL7(9, 10, 0, 12, 14)), LostRecord(1), ReadError}

\* The records of the codec specification.
CodecProtocols == (0..4) \cup {9, 2147483647}
CodecMethods == 0..10
CodecL7Inputs ==
    {SampleRecord(RawL7(p, m, t, fd, sz)) :
        p \in CodecProtocols, m \in CodecMethods, t \in {0, 1, 255},
        fd \in {12, 65548}, sz \in {14, 512, 513}}
    \cup {LostRecord(1), ReadError}

\* Byte strings built from at most MaxAtoms pieces: the delimiter, a bar,
\* a letter, a dash and a zero byte.
Atoms == {Delim, Bar, <<97>>, <<DASH>>, <<NUL>>}
AtomSeqs == UNION {[1..k -> Atoms] : k \in 0..MaxAtoms}

RECURSIVE Flatten(_)
Flatten(ss) == IF ss = <<>> THEN <<>> ELSE Head(ss) \o Flatten(Tail(ss))

\* The messages of the end-to-end scenarios: "x -- a|b|c", "x -- a|b",
\* "xx" and "x -- a|b|c|a".
ScenarioMsgs ==
    {<<120, SP, DASH, DASH, SP, 97, BAR, 98, BAR, 99>>,
     <<120, SP, DASH, DASH, SP, 97, BAR, 98>>,
     <<120, 120>>,
     <<120, SP, DASH, DASH, SP, 97, BAR, 98, BAR, 99, BAR, 97>>}

\* The fixed-size arrays of bpfLogMessage are zero-filled after the text.
LogMsgLen == 4 * MaxAtoms + 12
Pad(b, n) == b \o [i \in 1..(n - Len(b)) |-> NUL]

LogMsgs == {Pad(Flatten(ss), LogMsgLen) : ss \in AtomSeqs}
           \cup {Pad(m, LogMsgLen) : m \in ScenarioMsgs}
FuncNames == [1..FuncNameLen -> {102, NUL}]
LogLevels == {0, 1, 2, 3, 4, 255}

RawLog(level, funcName, logMsg) ==
    [Level |-> level, Pid |-> 42, FuncName |-> funcName, LogMsg |-> logMsg,
     Arg1 |-> 7, Arg2 |-> 128, Arg3 |-> 3]

LogInputs ==
    {SampleRecord(RawLog(l, f, m)) : l \in LogLevels, f \in FuncNames, m \in LogMsgs}
    \cup {LostRecord(1), ReadError}

SpecLogInputs ==
    {SampleRecord(RawLog(1, Pad(<<102>>, FuncNameLen),
                         Pad(<<120, SP, DASH, DASH, SP, 97, BAR, 98, BAR, 99>>, LogMsgLen)))}

(***************************************************************************)
(* Specifications.                                                         *)
(***************************************************************************)
\* The whole program: loading, startup, the pumps, cancellation, teardown.
Next ==
    \/ LoadBpfObjects
    \/ DeployAndWaitEnter
    \/ Acquire
    \/ SpawnPumps
    \/ AwaitDone
    \/ SendLogsDone
    \/ RunDefer
    \/ Return
    \/ Cancel
    \/ L7PumpSelect
    \/ \E record \in SpecL7Inputs : L7PumpRead(record)
    \/ \E t \in tasks : TaskRun(t)
    \/ \E t \in tasks : TaskSend(t)
    \/ ConsumerReceive
    \/ LogPumpSelect
    \/ \E record \in SpecLogInputs : LogPumpRead(record)
    \/ LogPumpReadClosed

Spec == Init /\ [][Next]_vars

\* The steps the Go scheduler runs without waiting for anything outside the
\* program.  The kernel putting a record on a ring, the consumer receiving
\* from ch and the caller cancelling the context are not among them.
Fairness ==
    /\ WF_vars(Acquire)
    /\ WF_vars(SpawnPumps)
    /\ WF_vars(AwaitDone)
    /\ WF_vars(SendLogsDone)
    /\ WF_vars(RunDefer)
    /\ WF_vars(Return)
    /\ WF_vars(L7PumpSelect)
    /\ WF_vars(LogPumpSelect)
    /\ WF_vars(LogPumpReadClosed)
    /\ WF_vars(\E t \in tasks : TaskRun(t))

FairSpec == Init /\ [][Next]_vars /\ Fairness

\* The state once DeployAndWait has started both pumps and both are
\* blocked in their first Read.
Running ==
    /\ objs = "open"
    /\ orphans = 0
    /\ loads = 1
    /\ mainPc = "wait"
    /\ step = Len(Resources) + 1
    /\ res = [r \in ResourceNames |-> "open"]
    /\ defers = [i \in 1..Len(Resources) |-> Resources[Len(Resources) + 1 - i]] \o <<"objs">>
    /\ released = <<>>
    /\ cancelled = FALSE
    /\ logsDone = 0
    /\ l7Pc = "read"
    /\ logPc = "read"
    /\ l7Hist = <<>>
    /\ logReads = 0
    /\ l7After = 0
    /\ logAfter = 0
    /\ tasks = {}
    /\ chBuf = <<>>
    /\ sent = <<>>
    /\ hostLog = [i \in 1..Len(Tracepoints) |-> LogEntryText("info", "linked", Tracepoints[i])]
    /\ lastLog = NoLog

\* The L7 pump with its stop signal, its senders and the consumer, on
\* records of a few kinds.
PumpNext ==
    \/ Cancel
    \/ AwaitDone
    \/ L7PumpSelect
    \/ \E record \in PumpL7Inputs : L7PumpRead(record)
    \/ \E t \in tasks : TaskRun(t)
    \/ \E t \in tasks : TaskSend(t)
    \/ ConsumerReceive

PumpSpec == Running /\ [][PumpNext]_vars

\* The L7 pump on one record of any content, with its sender and the consumer.
CodecNext ==
    \/ /\ l7Hist = <<>>
       /\ \E record \in CodecL7Inputs : L7PumpRead(record)
    \/ \E t \in tasks : TaskRun(t)
    \/ \E t \in tasks : TaskSend(t)
    \/ ConsumerReceive

CodecSpec == Running /\ [][CodecNext]_vars

\* The log pump on one record of any content.
LogNext ==
    /\ logReads = 0
    /\ \E record \in LogInputs : LogPumpRead(record)

LogSpec == Running /\ [][LogNext]_vars

(***************************************************************************)
(* Properties.                                                             *)
(***************************************************************************)
AllReleased ==
    /\ \A r \in ResourceNames : res[r] = "closed"
    /\ objs = "closed"

\* The model's budget of ring records is used up on one of the rings.
RingsExhausted == Len(l7Hist) = MaxL7Reads \/ logReads = MaxLogReads

\* C1: once the context is cancelled while DeployAndWait waits on it,
\* DeployAndWait eventually returns with the eight links, both ring readers
\* and the object graph closed, whether or not a ring delivers another
\* record.  Behaviours that use up the record budget of a ring are left
\* out, so that a ring that falls silent does so by the kernel's choice.
C1_CancelLeadsToReturn ==
    (cancelled /\ mainPc = "wait") ~>
        ((mainPc = "returned" /\ AllReleased) \/ RingsExhausted)

\* The indices of sent, and the record an entry of sent was decoded from.
SentIdx == 1..Len(sent)
RecordOf(s) == l7Hist[s.seq]

\* C2 as stated: events are sent on ch in the order their records were read
\* from the L7 ring.
C2_SentInReadOrder ==
    \A i, j \in SentIdx : i < j => sent[i].seq < sent[j].seq

\* C2 as amended: every event sent on ch is the decoded event of a non-empty
\* record already read from the L7 ring, and no record is sent twice; the
\* order of the sends is left open.
C2_SentIsOfRecordRead ==
    /\ \A i \in SentIdx :
          /\ sent[i].seq \in 1..Len(l7Hist)
          /\ Len(RecordOf(sent[i]).RawSample) > 0
          /\ sent[i].ev = L7EventOf(RecordOf(sent[i]).RawSample[1])
    /\ \A i, j \in SentIdx : i # j => sent[i].seq # sent[j].seq

\* Two records were read and the event of the second was sent first.
C2_Witness ==
    /\ Len(sent) = 2
    /\ sent[1].seq = 2
    /\ sent[2].seq = 1
    /\ sent[1].ev # sent[2].ev

\* C3: a raw protocol outside {0,1,2,3} is sent with Protocol "UNKNOWN" and
\* Method "Unknown", whatever the raw method.
C3_UnknownProtocol ==
    \A i \in SentIdx :
        RecordOf(sent[i]).RawSample[1].Protocol \notin 0..3 =>
            /\ sent[i].ev.Protocol = "UNKNOWN"
            /\ sent[i].ev.Method = "Unknown"

\* C4: when an attachment or a reader creation fails during the startup of
\* DeployAndWait, every acquisition made before the failure has been
\* released when the process ends: a failure at number N closes 1..N-1.
C4_FatalStartupReleases ==
    (mainPc = "exited" /\ defers # <<>>) =>
        \A i \in 1..(step - 1) : res[Resources[i]] = "closed"

\* C5: after the cancellation each pump processes at most one further
\* ring record.  The records are counted from the moment DeployAndWait has
\* seen the cancellation, not from the cancellation itself.
C5_AtMostOneRecordAfterCancel ==
    /\ l7After <= 1
    /\ logAfter <= 1

\* C6: whatever the consumer does, the L7 pump is never held by ch: at its
\* select it can always go on, it takes the stop signal whenever the
\* coordinator offers it, and a record the ring delivers is always read.
C6_L7PumpNeverBlockedByChannel ==
    /\ l7Pc = "select" => ENABLED L7PumpSelect
    /\ (l7Pc = "select" /\ mainPc = "sendReadDone") =>
           ENABLED (L7PumpSelect /\ l7Pc' = "done")
    /\ (l7Pc = "read" /\ Len(l7Hist) < MaxL7Reads) =>
           \A record \in PumpL7Inputs : ENABLED L7PumpRead(record)

\* ch is full, a sender is blocked on it, and the pump is at its select
\* with the stop signal on offer.
C6_Witness ==
    /\ Len(chBuf) = ChanCap
    /\ \E t \in tasks : t.st = "send"
    /\ l7Pc = "select"
    /\ mainPc = "sendReadDone"

(***************************************************************************)
(* The grammar of log_msg, stated without the parser: the text up to the   *)
(* first zero byte, BODY " -- " NAME "|" NAME "|" NAME.                     *)
(***************************************************************************)
CString(b) ==
    LET n == CHOOSE k \in 0..Len(b) :
                 /\ \A i \in 1..k : b[i] # NUL
                 /\ k = Len(b) \/ b[k + 1] = NUL
    IN  SubSeq(b, 1, n)

\* The 1-based positions at which the delimiter starts, and of the bars.
DelimAt(m) == {i \in 1..Len(m) : i + 3 <= Len(m) /\ SubSeq(m, i, i + 3) = Delim}
BarsAt(m) == {i \in 1..Len(m) : m[i] = BAR}
Min(S) == CHOOSE x \in S : \A y \in S : x <= y

HasDelim(m) == DelimAt(m) # {}
BodyOf(m) == SubSeq(m, 1, Min(DelimAt(m)) - 1)
NamesOf(m) == SubSeq(m, Min(DelimAt(m)) + 4, Len(m))
NumTokens(m) == Cardinality(BarsAt(NamesOf(m))) + 1
WellFormed(m) == HasDelim(m) /\ NumTokens(m) = 3

\* The three tokens of a well-formed message.
TokensOf(m) ==
    LET t == NamesOf(m)
        b1 == Min(BarsAt(t))
        b2 == Min(BarsAt(t) \ {b1})
    IN  <<SubSeq(t, 1, b1 - 1), SubSeq(t, b1 + 1, b2 - 1), SubSeq(t, b2 + 1, Len(t))>>

\* The last record read from the log ring was a sample; its struct, its
\* log_msg text and the entries written for it.
LastIsSample == logReads > 0 /\ Len(lastLog.rec.RawSample) > 0
LastRaw == lastLog.rec.RawSample[1]
LastMsg == CString(LastRaw.LogMsg)
LastEntries == SubSeq(hostLog, lastLog.from + 1, Len(hostLog))
LastIdx == 1..Len(LastEntries)
Structured(e) == e.msg = "ebpf-log"
LevelName(l) == <<"debug", "info", "warn", "error">>[l + 1]

\* C7: the parser accepts exactly the grammar: a well-formed log_msg (with
\* a level in 0..3) gives a structured ebpf-log entry, and any other
\* log_msg (no delimiter, fewer or more than three tokens) gives none.
C7_ParserAcceptsExactlyGrammar ==
    LastIsSample =>
        /\ (WellFormed(LastMsg) /\ LastRaw.Level \in 0..3) =>
               \E i \in LastIdx : Structured(LastEntries[i])
        /\ ~WellFormed(LastMsg) =>
               \A i \in LastIdx : ~Structured(LastEntries[i])

\* C8: a malformed log record gives exactly one WARN entry and no
\* structured entry.
C8_MalformedOneWarn ==
    (LastIsSample /\ ~WellFormed(LastMsg)) =>
        /\ Cardinality({i \in LastIdx : LastEntries[i].level = "warn"}) = 1
        /\ \A i \in LastIdx : ~Structured(LastEntries[i])

C10_UnknownLevelSilent ==
    (LastIsSample /\ LastRaw.Level \notin 0..3) => LastEntries = <<>>

\* C10 as amended: a record with a level outside 0..3 gives no structured
\* entry and nothing but WARN entries about its log_msg, and gives no
\* entry at all when its log_msg is well-formed.
C10_UnknownLevelNoStructured ==
    (LastIsSample /\ LastRaw.Level \notin 0..3) =>
        /\ \A i \in LastIdx :
              /\ ~Structured(LastEntries[i])
              /\ LastEntries[i].level = "warn"
        /\ WellFormed(LastMsg) => LastEntries = <<>>

\* A well-formed record with a level outside 0..3 has been read and dropped.
C10_Witness ==
    /\ LastIsSample
    /\ LastRaw.Level \notin 0..3
    /\ WellFormed(LastMsg)
    /\ Len(TokensOf(LastMsg)[1]) > 0
    /\ LastEntries = <<>>

(***************************************************************************)
(* The method tables as the specification lists them, by protocol string.  *)
(***************************************************************************)
HttpMethodNames ==
    <<"GET", "POST", "PUT", "PATCH", "DELETE", "HEAD", "CONNECT", "OPTIONS", "TRACE">>
AmqpMethodNames == <<"PUBLISH", "DELIVER">>
PostgresMethodNames == <<"CLOSE_OR_TERMINATE", "SIMPLE_QUERY">>

MethodNames(protocol) ==
    CASE protocol = "HTTP" -> HttpMethodNames
      [] protocol = "AMQP" -> AmqpMethodNames
      [] protocol = "POSTGRES" -> PostgresMethodNames
      [] OTHER -> <<>>

MethodNameOf(protocol, method) ==
    IF method \in DOMAIN MethodNames(protocol)
    THEN MethodNames(protocol)[method]
    ELSE "Unknown"

RangeOf(f) == {f[x] : x \in DOMAIN f}

\* The raw record an entry of sent was decoded from.
RawOf(s) == RecordOf(s).RawSample[1]

\* C11: the Method of every event sent is the entry of the table its decoded
\* Protocol selects (HTTP 1..9, AMQP 1..2, POSTGRES 1..2) at the raw method,
\* and "Unknown" for every other raw method; it is never a name of another
\* protocol's table, and an event with Protocol "UNKNOWN" has Method
\* "Unknown".
C11_MethodOfDecodedProtocol ==
    \A i \in SentIdx :
        LET ev == sent[i].ev IN
        /\ ev.Method = MethodNameOf(ev.Protocol, RawOf(sent[i]).Method)
        /\ ev.Method \in RangeOf(MethodNames(ev.Protocol)) \cup {"Unknown"}
        /\ ev.Protocol = "UNKNOWN" => ev.Method = "Unknown"

\* Events of all three protocols and of protocol 0 have been seen: an AMQP
\* event of raw method 1 was sent as PUBLISH, where the HTTP table has GET.
C11_Witness ==
    /\ Len(sent) = 1
    /\ sent[1].ev.Protocol = "AMQP"
    /\ RawOf(sent[1]).Method = 1
    /\ sent[1].ev.Method = "PUBLISH"

\* C12: LoadBpfObjects is idempotent: after any number of successful calls
\* the process is in the state one call leaves, holding exactly one loaded
\* object graph, with no earlier graph open and unreferenced.
C12_LoadIdempotent ==
    (loads >= 1 /\ mainPc = "init" /\ objs = "open") => orphans = 0

\* C13 as stated: every event sent has PayloadSize <= 512, whatever the
\* payload_size field of its raw record holds.
C13_PayloadSizeBounded ==
    \A i \in SentIdx : sent[i].ev.PayloadSize <= MAX_PAYLOAD_SIZE

\* C13 as amended: every event sent carries the payload_size of its raw
\* record unchanged, so its PayloadSize is <= 512 exactly when the raw
\* record keeps payload_size <= 512.
C13_PayloadSizeVerbatim ==
    \A i \in SentIdx :
        /\ sent[i].ev.PayloadSize = RawOf(sent[i]).PayloadSize
        /\ sent[i].ev.PayloadSize <= MAX_PAYLOAD_SIZE
               <=> RawOf(sent[i]).PayloadSize <= MAX_PAYLOAD_SIZE

\* An event whose raw record has a full payload, payload_size = 512 and a
\* status other than 512, has been sent.
C13_Witness ==
    /\ Len(sent) = 1
    /\ RawOf(sent[1]).PayloadSize = MAX_PAYLOAD_SIZE
    /\ RawOf(sent[1]).Status # MAX_PAYLOAD_SIZE
    /\ sent[1].ev.PayloadSize = MAX_PAYLOAD_SIZE

(***************************************************************************)
(* The inverse of the specification's tables: the integer a string stands  *)
(* for, and -1 for a string that no table entry carries.                   *)
(***************************************************************************)
ProtocolNames == [p \in 0..3 |-> <<"UNKNOWN", "HTTP", "AMQP", "POSTGRES">>[p + 1]]

EncodeProtocol(name) ==
    IF \E p \in DOMAIN ProtocolNames : ProtocolNames[p] = name
    THEN CHOOSE p \in DOMAIN ProtocolNames : ProtocolNames[p] = name
    ELSE -1

EncodeMethod(protocol, name) ==
    LET table == MethodNames(protocol) IN
    IF \E m \in DOMAIN table : table[m] = name
    THEN CHOOSE m \in DOMAIN table : table[m] = name
    ELSE -1

\* The method indices the table of raw protocol p lists.
ListedMethods(p) ==
    IF p \in DOMAIN ProtocolNames THEN DOMAIN MethodNames(ProtocolNames[p]) ELSE {}

\* C14: for every event sent, mapping Protocol back through the protocol
\* table gives the raw protocol exactly when the raw protocol is in 0..3,
\* and mapping Method back through the table of that protocol gives the raw
\* method exactly when the raw method is one of the indices the table lists;
\* hence both integers come back exactly when both were in range.
C14_EnumRoundTrip ==
    \A i \in SentIdx :
        LET raw == RawOf(sent[i])
            ev == sent[i].ev
            p == EncodeProtocol(ev.Protocol)
            m == EncodeMethod(ev.Protocol, ev.Method)
        IN /\ p = raw.Protocol <=> raw.Protocol \in 0..3
           /\ m = raw.Method <=> raw.Method \in ListedMethods(raw.Protocol)
           /\ (p = raw.Protocol /\ m = raw.Method)
                 <=> (raw.Protocol \in 0..3 /\ raw.Method \in ListedMethods(raw.Protocol))

\* An HTTP event of raw method 9 has been sent and maps back to (1, 9).
C14_Witness ==
    /\ Len(sent) = 1
    /\ RawOf(sent[1]).Protocol = 1
    /\ RawOf(sent[1]).Method = 9
    /\ EncodeProtocol(sent[1].ev.Protocol) = 1
    /\ EncodeMethod(sent[1].ev.Protocol, sent[1].ev.Method) = 9

\* C15: each ring reader is closed only after the pump that reads it has
\* taken its stop signal: the L7 reader is never closed while the L7 pump
\* has not received from readDone, nor the log reader while the log pump
\* has not received from logsDone.
C15_ReaderClosedAfterStopObserved ==
    /\ res["l7Events"] = "closed" => l7Pc = "done"
    /\ res["logs"] = "closed" => logPc = "done"

\* The order of release the specification gives for a shutdown: the log
\* reader, the L7 reader, the eight tracepoints from the one attached last
\* to the one attached first, and the object graph.
ReleaseOrder ==
    <<"logs", "l7Events",
      "sys_exit_write", "sys_exit_sendto", "sys_exit_recvfrom", "sys_enter_recvfrom",
      "sys_enter_sendto", "sys_exit_read", "sys_enter_write", "sys_enter_read",
      "objs">>

\* C16: on shutdown after a cancellation the releases happen in the strict
\* reverse order of the acquisitions: at every moment what has been
\* released is an initial part of that order, each released resource is
\* closed, and when DeployAndWait has returned all eleven are released.
C16_ReleaseInReverseOrder ==
    /\ Len(released) <= Len(ReleaseOrder)
    /\ released = SubSeq(ReleaseOrder, 1, Len(released))
    /\ \A i \in 1..Len(released) :
          IF released[i] = "objs" THEN objs = "closed" ELSE res[released[i]] = "closed"
    /\ mainPc = "returned" => released = ReleaseOrder

\* DeployAndWait has returned after a cancellation with all eleven released.
C16_Witness ==
    /\ mainPc = "returned"
    /\ cancelled
    /\ Len(released) = 11
    /\ objs = "closed"

\* The number of events sent for record number n, and of goroutines that
\* still hold its event.
SentOf(n) == Cardinality({i \in SentIdx : sent[i].seq = n})
PendingOf(n) == Cardinality({t \in tasks : t.seq = n})

\* C17: every non-empty record read from the L7 ring, whatever its protocol
\* and method, has exactly one event: either already sent, once, or held by
\* one goroutine that decodes and then sends as soon as ch takes a value;
\* an empty record and a failed read have no event at all; and after a read
\* of any kind the pump goes on to the next read unless it is being stopped.
C17_OneEventPerRecord ==
    /\ \A n \in 1..Len(l7Hist) :
          IF Len(l7Hist[n].RawSample) > 0
          THEN SentOf(n) + PendingOf(n) = 1
          ELSE SentOf(n) + PendingOf(n) = 0
    /\ \A t \in tasks :
          /\ t.st = "run" => ENABLED TaskRun(t)
          /\ (t.st = "send" /\ Len(chBuf) < ChanCap) => ENABLED TaskSend(t)
    /\ (Len(l7Hist) > 0 /\ l7Pc = "select" /\ mainPc # "sendReadDone") =>
           ENABLED (L7PumpSelect /\ l7Pc' = "read")

\* A failed read was followed by a record of an unknown protocol and method,
\* whose event, and no other, has been sent.
C17_Witness ==
    /\ Len(l7Hist) = 2
    /\ l7Hist[1].err
    /\ Len(l7Hist[2].RawSample) > 0
    /\ l7Hist[2].RawSample[1].Protocol \notin 0..3
    /\ tasks = {}
    /\ Len(sent) = 1
    /\ sent[1].seq = 2
    /\ sent[1].ev.Method = "Unknown"

\* The "l7tls event" debug entries of the host log that carry the fd, pid,
\* status, method and protocol of event ev.
TlsLogsOf(ev) ==
    {k \in 1..Len(hostLog) :
        /\ hostLog[k].msg = "l7tls event"
        /\ hostLog[k].level = "debug"
        /\ hostLog[k].fd = ev.Fd
        /\ hostLog[k].pid = ev.Pid
        /\ hostLog[k].status = ev.Status
        /\ hostLog[k].method = ev.Method
        /\ hostLog[k].protocol = ev.Protocol}

TlsLogs == {k \in 1..Len(hostLog) : hostLog[k].msg = "l7tls event"}

\* C18: when an event of a record with is_tls non-zero has been sent, the
\* host log already holds a debug entry "l7tls event" whose fd, pid, status,
\* method and protocol are those of the event, whatever the 64-bit fd; when
\* the record has is_tls zero, no such entry is written.
C18_TlsLogMatchesEvent ==
    \A i \in SentIdx :
        IF RawOf(sent[i]).IsTls # 0
        THEN TlsLogsOf(sent[i].ev) # {}
        ELSE TlsLogs = {}

\* C19: once DeployAndWait has returned, every per-event goroutine has
\* completed its send: none is left decoding or blocked on ch, so no send on
\* ch happens after the return.
C19_NoSenderAfterReturn ==
    mainPc = "returned" => tasks = {}










====
